---- MODULE Spec2Model ----
(***************************************************************************)
(* Model of the AIOps self-healing agent (agent.py, healer.py,             *)
(* predictor.py, monitor.py, config.py).                                   *)
(*                                                                         *)
(* The agent keeps a list of nodes (current_nodes) and a set of greylisted *)
(* node ids (greylisted_nodes).  Every cycle it takes one health report    *)
(* per node, asks the predictor for a severity and either replaces the     *)
(* node (critical), expands the cluster / re-alerts (warning) or clears    *)
(* the greylist entry (anything else).                                     *)
(*                                                                         *)
(* Node ids are strings in the program.  They are modelled as pairs        *)
(* <<prefix, number>>: <<"node", 1>> is "node-1", <<"node-unstable", 4>>   *)
(* is "node-4-unstable" and <<"node-new", t>> is f"node-new-{t}".          *)
(* The external calls of the healer (alert, provision, join, leave) are    *)
(* simulated in the source; the try/except blocks around them define what  *)
(* happens when one raises, so the step that raises is an input here.      *)
(***************************************************************************)
EXTENDS Integers, Sequences, FiniteSets, TLC

VARIABLES
    current_nodes,      \* agent.current_nodes: sequence of [id, address]
    greylisted_nodes,   \* agent.greylisted_nodes: set of node ids
    new_node_counter,   \* healer._new_node_counter
    now,                \* int(time.time()), seconds since the agent started
    pc,                 \* "start" | "loop" | "sleep" | "stopped": position in
                        \* AIOpsAgent.run
    health_reports,     \* the reports of the running cycle (their node_id)
    idx,                \* position of the for loop in health_reports
    cycle_error,        \* an exception escaped the last run_check_cycle
    cycles,             \* number of cycles started so far
    raft_members,       \* the addresses that are members of the Raft cluster
    expanded,           \* history: ids for which an Expand called Provision
                        \* since the node was last processed as none
    last,               \* history: what the last processed report did
    remed,              \* history: remediations attempted in this cycle
    prev_remed,         \* history: remediations attempted in the previous cycle
    scen,               \* the scripted run that is followed, if any (ScenarioSpec)
    mock_check_counter, \* predictor._mock_check_counter (MockSpec)
    mock_prev           \* history: the severity _predict_mock returned last for
                        \* an unstable node

vars == <<current_nodes, greylisted_nodes, new_node_counter, now, pc,
          health_reports, idx, cycle_error, cycles, raft_members, expanded,
          last, remed, prev_remed, scen, mock_check_counter, mock_prev>>

----------------------------------------------------------------------------
(* Bounds of the model *)

\* the control loop is followed for MaxCycles cycles
MaxCycles == 2

\* MockSpec: the control loop is followed for MockCycles cycles
MockCycles == 5

\* LiveSpec: the agent is started on the last LiveNodes nodes of
\* config.CLUSTER_NODES
LiveNodes == 2

\* the agent is started on the last InitNodes nodes of config.CLUSTER_NODES
InitNodes == 1

\* ScenarioSpec: cycles that run freely before the scripted cycles begin
WarmupCycles == 1

----------------------------------------------------------------------------
(* config.py *)

AGENT_SLEEP_INTERVAL_SECONDS == 15

\* LLM_CONFIG
mock_warning_prediction_interval == 3
mock_critical_prediction_interval == 5

CLUSTER_NODES ==
    << [id |-> <<"node", 1>>,          address |-> 101],
       [id |-> <<"node", 2>>,          address |-> 102],
       [id |-> <<"node", 3>>,          address |-> 103],
       [id |-> <<"node-unstable", 4>>, address |-> 104] >>

\* HEALER_CONFIG["new_node_address_template"].format(i=i): the last octet of
\* "192.168.1.20{i}" is the digits "20" followed by the digits of i
new_node_address_template(i) ==
    IF i < 10 THEN 200 + i
    ELSE IF i < 100 THEN 2000 + i
    ELSE 20000 + i

\* the node list the agent is constructed with (agent.py:16)
InitialNodes ==
    LET n == Len(CLUSTER_NODES)
        k == IF InitNodes < n THEN InitNodes ELSE n
    IN  SubSeq(CLUSTER_NODES, n - k + 1, n)

----------------------------------------------------------------------------
(* helpers *)

NoNode == [id |-> <<"none", 0>>, address |-> 0]    \* Python's None

Ids(nodes) == { nodes[k].id : k \in DOMAIN nodes }

Range(f) == { f[k] : k \in DOMAIN f }

\* the prefix of a call order up to and including the call that raised
CallsMade(order, fail) ==
    IF \E k \in DOMAIN order : order[k] = fail
    THEN SubSeq(order, 1, CHOOSE k \in DOMAIN order : order[k] = fail)
    ELSE order

\* the calls of a call order that returned: those before the call that raised
Completed(order, fail) ==
    IF \E k \in DOMAIN order : order[k] = fail
    THEN SubSeq(order, 1, (CHOOSE k \in DOMAIN order : order[k] = fail) - 1)
    ELSE order

\* seconds slept by the calls that completed: time.sleep(2) in
\* _provision_new_node, time.sleep(1) in the two raft calls
SleepOf(call) ==
    CASE call = "provision" -> 2
      [] call = "join"      -> 1
      [] call = "leave"     -> 1
      [] OTHER              -> 0

RECURSIVE Elapsed(_, _)
Elapsed(order, fail) ==
    IF order = << >> \/ Head(order) = fail THEN 0
    ELSE SleepOf(Head(order)) + Elapsed(Tail(order), fail)

----------------------------------------------------------------------------
(* monitor.py *)

\* mutant: the reports are taken from the configured nodes
get_cluster_health_FromConfig(nodes) ==
    [k \in DOMAIN InitialNodes |-> InitialNodes[k].id]

\* one report per node, in the order of the node list
get_cluster_health(nodes) == [k \in DOMAIN nodes |-> nodes[k].id]

----------------------------------------------------------------------------
(* predictor.py *)

\* What predict_failure hands back for a report:
\*   "critical", "warning", "none": a dict with that severity
\*   "other":     a dict whose severity is some other string
\*   "missing":   a dict without a severity key
\*   "bad_json":  the LLM answer was not JSON (predictor.py:76-78)
\*   "api_error": the API call raised (predictor.py:83-92)
\*   "non_dict":  the LLM answer was JSON but not an object
Predictions ==
    {"critical", "warning", "none", "other", "missing", "bad_json",
     "api_error", "non_dict"}

\* mutant: a severity that is some other string is taken as critical
SeverityOf_OtherIsCritical(kind) ==
    CASE kind = "critical" -> "critical"
      [] kind = "warning"  -> "warning"
      [] kind = "other"    -> "critical"
      [] OTHER             -> "none"

\* prediction.get("severity", "none") in run_check_cycle, after the
\* fallbacks of predict_failure
SeverityOf(kind) ==
    CASE kind = "critical" -> "critical"
      [] kind = "warning"  -> "warning"
      [] kind = "other"    -> "other"
      [] OTHER             -> "none"

\* "unstable" in node_id
IsUnstable(node_id) == node_id[1] = "node-unstable"

\* mutant: the warning threshold is tested first
_predict_mock_WarningFirst(node_id, counter) ==
    IF ~IsUnstable(node_id) THEN "none"
    ELSE IF counter >= mock_warning_prediction_interval THEN "warning"
    ELSE IF counter >= mock_critical_prediction_interval THEN "critical"
    ELSE "none"

\* predictor.py:130-159; counter is _mock_check_counter after the increment
\* that opens the call
_predict_mock(node_id, counter) ==
    IF ~IsUnstable(node_id) THEN "none"
    ELSE IF counter >= mock_critical_prediction_interval THEN "critical"
    ELSE IF counter >= mock_warning_prediction_interval THEN "warning"
    ELSE "none"

----------------------------------------------------------------------------
(* healer.py *)

\* mutant: the failing node leaves before the new node joins
ReplaceCalls_LeaveFirst == <<"notify", "provision", "leave", "join">>

\* healer.py:148-153
ReplaceCalls == <<"notify", "provision", "join", "leave">>
ExpandCalls  == <<"notify", "provision", "join">>

ReplaceFails == {"ok", "notify", "provision", "join", "leave"}
ExpandFails  == {"ok", "notify", "provision", "join"}

\* mutant: the id is taken from the minute, not the second
_provision_new_node_MinuteId(counter, t) ==
    [id |-> <<"node-new", t \div 60>>,
     address |-> new_node_address_template(counter + 1)]

\* healer.py:60-71, entered with the counter at counter and the clock at t
_provision_new_node(counter, t) ==
    [id |-> <<"node-new", t>>, address |-> new_node_address_template(counter + 1)]

\* the node _provision_new_node has returned by the time the handler ends
Provisioned(fail, counter, t) ==
    IF fail \in {"notify", "provision"} THEN NoNode
    ELSE _provision_new_node(counter, t)

\* the counter is bumped as soon as _provision_new_node is entered
CounterAfter(counter, fail) == IF fail = "notify" THEN counter ELSE counter + 1

\* mutant: a failed Join is not noticed
handle_critical_failure_JoinIgnored(fail, counter, t) ==
    IF fail \in {"ok", "join"} THEN _provision_new_node(counter, t) ELSE NoNode

\* the value handle_critical_failure returns when it returns
handle_critical_failure(fail, counter, t) ==
    IF fail = "ok" THEN _provision_new_node(counter, t) ELSE NoNode

\* the value handle_greylist_expansion returns when it returns
handle_greylist_expansion(fail, counter, t) ==
    IF fail = "ok" THEN _provision_new_node(counter, t) ELSE NoNode

\* the Raft membership after one call of the healer returned:
\* _add_node_to_raft_cluster(new_addr), _remove_node_from_raft_cluster(old_addr)
MembersAfterCall(members, call, new_addr, old_addr) ==
    CASE call = "join"  -> members \cup {new_addr}
      [] call = "leave" -> members \ {old_addr}
      [] OTHER          -> members

\* the Raft membership after each of the calls in done returned, in order
RECURSIVE MembersTrace(_, _, _, _)
MembersTrace(members, done, new_addr, old_addr) ==
    IF done = << >> THEN << >>
    ELSE LET m == MembersAfterCall(members, Head(done), new_addr, old_addr)
         IN  <<m>> \o MembersTrace(m, Tail(done), new_addr, old_addr)

\* the Raft membership when the handler is left
MembersAfter(members, done, new_addr, old_addr) ==
    LET trace == MembersTrace(members, done, new_addr, old_addr)
    IN  IF trace = << >> THEN members ELSE trace[Len(trace)]

----------------------------------------------------------------------------
(* agent.py *)

_find_node_config(nodes, node_id) ==
    IF \E k \in DOMAIN nodes : nodes[k].id = node_id
    THEN nodes[CHOOSE k \in DOMAIN nodes :
                 /\ nodes[k].id = node_id
                 /\ \A j \in DOMAIN nodes : nodes[j].id = node_id => k <= j]
    ELSE NoNode

\* mutant: the failing node is not filtered out
ReplaceNode_KeepOld(nodes, node_id, new_node) == Append(nodes, new_node)

\* agent.py:89-90
ReplaceNode(nodes, node_id, new_node) ==
    SelectSeq(nodes, LAMBDA n : n.id # node_id) \o <<new_node>>

\* mutant: the greylist entry of the replaced node is kept
GreylistAfterReplace_NoDiscard(grey, node_id) == grey

\* agent.py:92
GreylistAfterReplace(grey, node_id) == grey \ {node_id}

\* mutant: a healthy node is not taken off the greylist
GreylistAfterHealthy_Keep(grey, node_id) == grey

\* mutant: a healthy node empties the greylist
GreylistAfterHealthy_ClearAll(grey, node_id) == {}

\* agent.py:71-75
GreylistAfterHealthy(grey, node_id) == grey \ {node_id}

\* agent.py:57: the loop goes on until the reports are exhausted
AfterOther(i, n) == IF i + 1 > n THEN "sleep" ELSE "loop"

\* mutant: no break after a critical node
AfterCritical_NoBreak(i, n) == AfterOther(i, n)

\* agent.py:66: break after a critical node
AfterCritical(i, n) == "sleep"

\* mutant: an exception that leaves run_check_cycle ends the agent
AfterException_Stop == "stopped"

\* agent.py:41-48: an exception that leaves run_check_cycle is caught and
\* printed, then run goes on to its sleep
AfterException == "sleep"

NoLast ==
    [idx |-> 0, node_id |-> NoNode.id, kind |-> "init", severity |-> "init",
     action |-> "init", fail |-> "ok", calls |-> << >>, provisioned |-> NoNode,
     new_node |-> NoNode, pre_nodes |-> << >>, pre_grey |-> {},
     members |-> << >>]

\* no scripted run is followed
ScenOff == [stage |-> 0, node |-> NoNode.id, nodes0 |-> << >>, grey0 |-> {}]

Init ==
    /\ scen = ScenOff
    /\ mock_check_counter = 0
    /\ mock_prev = "none"
    /\ current_nodes = InitialNodes
    /\ greylisted_nodes = {}
    /\ new_node_counter = 0
    /\ now = 0
    /\ pc = "start"
    /\ health_reports = << >>
    /\ idx = 1
    /\ cycle_error = FALSE
    /\ cycles = 0
    /\ raft_members = { InitialNodes[k].address : k \in DOMAIN InitialNodes }
    /\ expanded = {}
    /\ last = NoLast
    /\ remed = {}
    /\ prev_remed = {}

\* agent.py:50-55: run_check_cycle begins, the reports are collected
\* (everything but the count of cycles)
BeginCycleBody ==
    /\ pc = "start"
    /\ health_reports' = get_cluster_health(current_nodes)
    /\ idx' = 1
    /\ pc' = IF Len(current_nodes) = 0 THEN "sleep" ELSE "loop"
    /\ cycle_error' = FALSE
    /\ prev_remed' = remed
    /\ remed' = {}
    /\ UNCHANGED <<current_nodes, greylisted_nodes, new_node_counter, now,
                   raft_members, expanded, last>>

BeginCycle ==
    /\ BeginCycleBody
    /\ cycles' = cycles + 1

StartCycle == cycles < MaxCycles /\ BeginCycle

Looping == pc = "loop" /\ idx \in DOMAIN health_reports

\* agent.py:60: prediction.get on something that is not a dict raises, the
\* exception leaves run_check_cycle and is caught in run (agent.py:41-43)
PredictionRaises ==
    /\ Looping
    /\ pc' = AfterException
    /\ cycle_error' = TRUE
    /\ last' = [idx |-> idx, node_id |-> health_reports[idx], kind |-> "non_dict",
                severity |-> "none", action |-> "raise", fail |-> "ok",
                calls |-> << >>, provisioned |-> NoNode, new_node |-> NoNode,
                pre_nodes |-> current_nodes, pre_grey |-> greylisted_nodes,
                members |-> << >>]
    /\ UNCHANGED <<current_nodes, greylisted_nodes, new_node_counter, now,
                   health_reports, idx, cycles, raft_members, expanded, remed,
                   prev_remed>>

\* agent.py:69-75: the else branch
HandleHealthy(kind) ==
    /\ Looping
    /\ kind # "non_dict"
    /\ SeverityOf(kind) \notin {"critical", "warning"}
    /\ LET node_id == health_reports[idx] IN
       /\ greylisted_nodes' = GreylistAfterHealthy(greylisted_nodes, node_id)
       /\ last' = [idx |-> idx, node_id |-> node_id, kind |-> kind,
                   severity |-> SeverityOf(kind),
                   action |-> IF node_id \in greylisted_nodes
                              THEN "recover" ELSE "noop",
                   fail |-> "ok", calls |-> << >>, provisioned |-> NoNode,
                   new_node |-> NoNode,
                   pre_nodes |-> current_nodes, pre_grey |-> greylisted_nodes,
                   members |-> << >>]
       /\ expanded' = expanded \ {node_id}
    /\ pc' = AfterOther(idx, Len(health_reports))
    /\ idx' = idx + 1
    /\ UNCHANGED <<current_nodes, new_node_counter, now, health_reports,
                   cycle_error, cycles, raft_members, remed, prev_remed>>


\* mutant: the node is not greylisted
GreylistAfterWarning_Never(grey, node_id, new_node) == grey

\* agent.py:109: the id is added before the expansion is attempted
GreylistAfterWarning(grey, node_id, new_node) == grey \cup {node_id}

\* mutant: the new node is not appended
NodesAfterExpand_Drop(nodes, new_node) == nodes

\* agent.py:111-113
NodesAfterExpand(nodes, new_node) ==
    IF new_node # NoNode THEN Append(nodes, new_node) ELSE nodes

\* mutant: the failing node is removed and the new node is not appended
NodesAfterReplace_NoAppend(nodes, node_id, new_node) ==
    IF new_node # NoNode THEN SelectSeq(nodes, LAMBDA n : n.id # node_id)
    ELSE nodes

\* agent.py:87-90
NodesAfterReplace(nodes, node_id, new_node) ==
    IF new_node # NoNode THEN ReplaceNode(nodes, node_id, new_node) ELSE nodes

\* mutant: a replaced node stays greylisted
GreylistAfterCritical_Keep(grey, node_id, new_node) == grey

\* agent.py:87-92
GreylistAfterCritical(grey, node_id, new_node) ==
    IF new_node # NoNode THEN GreylistAfterReplace(grey, node_id) ELSE grey

ResultOf(fail) ==
    CASE fail = "ok"     -> "ok"
      [] fail = "notify" -> "raised"
      [] OTHER           -> "failed"

\* agent.py:95-114: a warning for a node that is not greylisted.  send_alert
\* is called outside the try block of handle_greylist_expansion, so when it
\* raises the exception leaves run_check_cycle.
\* (everything but healer._new_node_counter)
HandleWarningFirstBody(kind, fail) ==
    /\ Looping
    /\ SeverityOf(kind) = "warning"
    /\ fail \in ExpandFails
    /\ LET node_id  == health_reports[idx]
           found    == _find_node_config(current_nodes, node_id) # NoNode
           new_node == handle_greylist_expansion(fail, new_node_counter, now)
           new_addr == Provisioned(fail, new_node_counter, now).address
           trace    == MembersTrace(raft_members, Completed(ExpandCalls, fail),
                                    new_addr, NoNode.address)
       IN
       /\ found
       /\ node_id \notin greylisted_nodes
       /\ greylisted_nodes' = GreylistAfterWarning(greylisted_nodes, node_id, new_node)
       /\ current_nodes' = NodesAfterExpand(current_nodes, new_node)
       /\ now' = now + Elapsed(ExpandCalls, fail)
       /\ raft_members' = MembersAfter(raft_members, Completed(ExpandCalls, fail),
                                       new_addr, NoNode.address)
       /\ expanded' = IF "provision" \in Range(CallsMade(ExpandCalls, fail))
                      THEN expanded \cup {node_id} ELSE expanded
       /\ last' = [idx |-> idx, node_id |-> node_id, kind |-> kind,
                   severity |-> "warning", action |-> "expand", fail |-> fail,
                   calls |-> CallsMade(ExpandCalls, fail),
                   provisioned |-> Provisioned(fail, new_node_counter, now),
                   new_node |-> new_node,
                   pre_nodes |-> current_nodes, pre_grey |-> greylisted_nodes,
                   members |-> trace]
       /\ remed' = remed \cup {[node_id |-> node_id, action |-> "expand",
                                result |-> ResultOf(fail)]}
    /\ pc' = IF fail = "notify" THEN AfterException
             ELSE AfterOther(idx, Len(health_reports))
    /\ idx' = IF fail = "notify" THEN idx ELSE idx + 1
    /\ cycle_error' = (fail = "notify")
    /\ UNCHANGED <<health_reports, cycles, prev_remed>>

HandleWarningFirst(kind, fail) ==
    /\ HandleWarningFirstBody(kind, fail)
    /\ new_node_counter' = CounterAfter(new_node_counter, fail)

\* agent.py:115-126: a warning for a node that is already greylisted
HandleWarningAgain(kind, fail) ==
    /\ Looping
    /\ SeverityOf(kind) = "warning"
    /\ fail \in {"ok", "notify"}
    /\ LET node_id == health_reports[idx]
           found   == _find_node_config(current_nodes, node_id) # NoNode
       IN
       /\ found
       /\ node_id \in greylisted_nodes
       /\ last' = [idx |-> idx, node_id |-> node_id, kind |-> kind,
                   severity |-> "warning", action |-> "realert", fail |-> fail,
                   calls |-> <<"notify">>, provisioned |-> NoNode,
                   new_node |-> NoNode,
                   pre_nodes |-> current_nodes, pre_grey |-> greylisted_nodes,
                   members |-> << >>]
    /\ pc' = IF fail = "notify" THEN AfterException
             ELSE AfterOther(idx, Len(health_reports))
    /\ idx' = IF fail = "notify" THEN idx ELSE idx + 1
    /\ cycle_error' = (fail = "notify")
    /\ UNCHANGED <<current_nodes, greylisted_nodes, new_node_counter, now,
                   health_reports, cycles, raft_members, expanded, remed,
                   prev_remed>>

\* agent.py:63-66 and 77-93: a critical node, then break
\* (everything but healer._new_node_counter)
HandleCriticalBody(kind, fail) ==
    /\ Looping
    /\ SeverityOf(kind) = "critical"
    /\ fail \in ReplaceFails
    /\ LET node_id  == health_reports[idx]
           found    == _find_node_config(current_nodes, node_id) # NoNode
           new_node == handle_critical_failure(fail, new_node_counter, now)
           new_addr == Provisioned(fail, new_node_counter, now).address
           old_addr == _find_node_config(current_nodes, node_id).address
           trace    == MembersTrace(raft_members, Completed(ReplaceCalls, fail),
                                    new_addr, old_addr)
       IN
       /\ found
       /\ current_nodes' = NodesAfterReplace(current_nodes, node_id, new_node)
       /\ greylisted_nodes' = GreylistAfterCritical(greylisted_nodes, node_id, new_node)
       /\ now' = now + Elapsed(ReplaceCalls, fail)
       /\ raft_members' = MembersAfter(raft_members, Completed(ReplaceCalls, fail),
                                       new_addr, old_addr)
       /\ expanded' = IF new_node # NoNode THEN expanded \ {node_id} ELSE expanded
       /\ last' = [idx |-> idx, node_id |-> node_id, kind |-> kind,
                   severity |-> "critical", action |-> "replace", fail |-> fail,
                   calls |-> CallsMade(ReplaceCalls, fail),
                   provisioned |-> Provisioned(fail, new_node_counter, now),
                   new_node |-> new_node,
                   pre_nodes |-> current_nodes, pre_grey |-> greylisted_nodes,
                   members |-> trace]
       /\ remed' = remed \cup {[node_id |-> node_id, action |-> "replace",
                                result |-> ResultOf(fail)]}
    /\ pc' = IF fail = "notify" THEN AfterException
             ELSE AfterCritical(idx, Len(health_reports))
    /\ idx' = idx
    /\ cycle_error' = (fail = "notify")
    /\ UNCHANGED <<health_reports, cycles, prev_remed>>

HandleCritical(kind, fail) ==
    /\ HandleCriticalBody(kind, fail)
    /\ new_node_counter' = CounterAfter(new_node_counter, fail)

\* agent.py:45-48: the cycle is over (or was left by an exception); sleep
\* (everything but the clock)
SleepBody ==
    /\ pc = "sleep"
    /\ pc' = "start"
    /\ last' = NoLast
    /\ UNCHANGED <<current_nodes, greylisted_nodes, new_node_counter,
                   health_reports, idx, cycle_error, cycles, raft_members,
                   expanded, remed, prev_remed>>

Sleep ==
    /\ SleepBody
    /\ now' = now + AGENT_SLEEP_INTERVAL_SECONDS

\* agent.py:38-40: Ctrl-C while run_check_cycle runs is caught and breaks
\* the loop; Ctrl-C during time.sleep (agent.py:48) is not caught and ends
\* run as well
Shutdown ==
    /\ pc \in {"loop", "sleep"}
    /\ pc' = "stopped"
    /\ UNCHANGED <<current_nodes, greylisted_nodes, new_node_counter, now,
                   health_reports, idx, cycle_error, cycles, raft_members,
                   expanded, last, remed, prev_remed>>

\* one report is processed: agent.py:57-75 for any prediction and any
\* outcome of the external calls
ProcessReport ==
    \/ PredictionRaises
    \/ \E kind \in Predictions : HandleHealthy(kind)
    \/ \E kind \in Predictions, fail \in ExpandFails : HandleWarningFirst(kind, fail)
    \/ \E kind \in Predictions, fail \in ExpandFails : HandleWarningAgain(kind, fail)
    \/ \E kind \in Predictions, fail \in ReplaceFails : HandleCritical(kind, fail)

Next ==
    \/ StartCycle /\ UNCHANGED <<scen, mock_check_counter, mock_prev>>
    \/ PredictionRaises /\ UNCHANGED <<scen, mock_check_counter, mock_prev>>
    \/ /\ \E kind \in Predictions : HandleHealthy(kind)
       /\ UNCHANGED <<scen, mock_check_counter, mock_prev>>
    \/ /\ \E kind \in Predictions, fail \in ExpandFails :
             HandleWarningFirst(kind, fail)
       /\ UNCHANGED <<scen, mock_check_counter, mock_prev>>
    \/ /\ \E kind \in Predictions, fail \in ExpandFails :
             HandleWarningAgain(kind, fail)
       /\ UNCHANGED <<scen, mock_check_counter, mock_prev>>
    \/ /\ \E kind \in Predictions, fail \in ReplaceFails :
             HandleCritical(kind, fail)
       /\ UNCHANGED <<scen, mock_check_counter, mock_prev>>
    \/ Sleep /\ UNCHANGED <<scen, mock_check_counter, mock_prev>>
    \/ Shutdown /\ UNCHANGED <<scen, mock_check_counter, mock_prev>>

Spec == Init /\ [][Next]_vars

----------------------------------------------------------------------------
(* The agent under a scripted classifier: after WarmupCycles or fewer free   *)
(* cycles one node is classified Script[1], Script[2], ... in consecutive   *)
(* cycles, every other node is classified none and no external call raises. *)

Script == <<"none", "warning", "warning", "critical">>

\* the prediction the script gives for a report in a scripted cycle
ScriptedKind(node_id) ==
    IF node_id = scen.node THEN Script[scen.stage] ELSE "none"

\* a free cycle begins
WarmupStart ==
    /\ scen.stage = 0
    /\ cycles < WarmupCycles
    /\ BeginCycle
    /\ UNCHANGED <<scen, mock_check_counter, mock_prev>>

WarmupStep ==
    /\ scen.stage = 0
    /\ ProcessReport
    /\ UNCHANGED <<scen, mock_check_counter, mock_prev>>

WarmupSleep ==
    /\ scen.stage = 0
    /\ Sleep
    /\ UNCHANGED <<scen, mock_check_counter, mock_prev>>

\* the first scripted cycle begins, for some node of the cluster
ScenBegin ==
    /\ scen.stage = 0
    /\ BeginCycle
    /\ \E n \in Ids(current_nodes) :
          scen' = [stage |-> 1, node |-> n, nodes0 |-> current_nodes,
                   grey0 |-> greylisted_nodes]
    /\ UNCHANGED <<mock_check_counter, mock_prev>>

\* the next scripted cycle begins
ScenAdvance ==
    /\ scen.stage \in 1 .. (Len(Script) - 1)
    /\ BeginCycle
    /\ scen' = [scen EXCEPT !.stage = @ + 1, !.nodes0 = current_nodes,
                            !.grey0 = greylisted_nodes]
    /\ UNCHANGED <<mock_check_counter, mock_prev>>

\* a report of a scripted cycle is processed
InScript == scen.stage >= 1 /\ Looping

ScenHealthy ==
    /\ InScript
    /\ HandleHealthy(ScriptedKind(health_reports[idx]))
    /\ UNCHANGED <<scen, mock_check_counter, mock_prev>>

ScenWarningFirst ==
    /\ InScript
    /\ HandleWarningFirst(ScriptedKind(health_reports[idx]), "ok")
    /\ UNCHANGED <<scen, mock_check_counter, mock_prev>>

ScenWarningAgain ==
    /\ InScript
    /\ HandleWarningAgain(ScriptedKind(health_reports[idx]), "ok")
    /\ UNCHANGED <<scen, mock_check_counter, mock_prev>>

ScenCritical ==
    /\ InScript
    /\ HandleCritical(ScriptedKind(health_reports[idx]), "ok")
    /\ UNCHANGED <<scen, mock_check_counter, mock_prev>>

ScenSleep ==
    /\ scen.stage >= 1
    /\ Sleep
    /\ UNCHANGED <<scen, mock_check_counter, mock_prev>>

ScenNext ==
    \/ WarmupStart
    \/ WarmupStep
    \/ WarmupSleep
    \/ ScenBegin
    \/ ScenAdvance
    \/ ScenHealthy
    \/ ScenWarningFirst
    \/ ScenWarningAgain
    \/ ScenCritical
    \/ ScenSleep

ScenarioSpec == Init /\ [][ScenNext]_vars

----------------------------------------------------------------------------
(* The agent in mock mode (LLM_CONFIG["use_mock"]): every report is         *)
(* classified by _predict_mock.  The agent is started on the last k nodes   *)
(* of config.CLUSTER_NODES, for any k; the external calls may raise.        *)

LastNodes(k) ==
    SubSeq(CLUSTER_NODES, Len(CLUSTER_NODES) - k + 1, Len(CLUSTER_NODES))

MockInit ==
    /\ scen = ScenOff
    /\ mock_check_counter = 0
    /\ mock_prev = "none"
    /\ \E k \in 1 .. Len(CLUSTER_NODES) :
          /\ current_nodes = LastNodes(k)
          /\ raft_members = { LastNodes(k)[i].address : i \in 1 .. k }
    /\ greylisted_nodes = {}
    /\ new_node_counter = 0
    /\ now = 0
    /\ pc = "start"
    /\ health_reports = << >>
    /\ idx = 1
    /\ cycle_error = FALSE
    /\ cycles = 0
    /\ expanded = {}
    /\ last = NoLast
    /\ remed = {}
    /\ prev_remed = {}

\* what predict_failure returns for the report at hand (predictor.py:50-51)
MockPrediction == _predict_mock(health_reports[idx], mock_check_counter + 1)

\* mutant: only the calls for an unstable node are counted
MockCount_UnstableOnly ==
    /\ mock_check_counter' = IF IsUnstable(health_reports[idx])
                             THEN mock_check_counter + 1 ELSE mock_check_counter
    /\ mock_prev' = IF IsUnstable(health_reports[idx])
                    THEN MockPrediction ELSE mock_prev
    /\ UNCHANGED scen

\* predictor.py:133: the counter is bumped by every call
MockCount ==
    /\ mock_check_counter' = mock_check_counter + 1
    /\ mock_prev' = IF IsUnstable(health_reports[idx])
                    THEN MockPrediction ELSE mock_prev
    /\ UNCHANGED scen

MockStart ==
    /\ cycles < MockCycles
    /\ BeginCycle
    /\ UNCHANGED <<scen, mock_check_counter, mock_prev>>

MockHealthy ==
    /\ Looping
    /\ HandleHealthy(MockPrediction)
    /\ MockCount

MockWarningFirst ==
    /\ Looping
    /\ \E fail \in ExpandFails : HandleWarningFirst(MockPrediction, fail)
    /\ MockCount

MockWarningAgain ==
    /\ Looping
    /\ \E fail \in ExpandFails : HandleWarningAgain(MockPrediction, fail)
    /\ MockCount

MockCritical ==
    /\ Looping
    /\ \E fail \in ReplaceFails : HandleCritical(MockPrediction, fail)
    /\ MockCount

MockSleep ==
    /\ Sleep
    /\ UNCHANGED <<scen, mock_check_counter, mock_prev>>

MockShutdown ==
    /\ Shutdown
    /\ UNCHANGED <<scen, mock_check_counter, mock_prev>>

MockNext ==
    \/ MockStart
    \/ MockHealthy
    \/ MockWarningFirst
    \/ MockWarningAgain
    \/ MockCritical
    \/ MockSleep
    \/ MockShutdown

MockSpec == MockInit /\ [][MockNext]_vars

----------------------------------------------------------------------------
(* The agent in mock mode when no external call raises.                     *)

MockOkWarningFirst ==
    /\ Looping
    /\ HandleWarningFirst(MockPrediction, "ok")
    /\ MockCount

MockOkWarningAgain ==
    /\ Looping
    /\ HandleWarningAgain(MockPrediction, "ok")
    /\ MockCount

MockOkCritical ==
    /\ Looping
    /\ HandleCritical(MockPrediction, "ok")
    /\ MockCount

MockOkNext ==
    \/ MockStart
    \/ MockHealthy
    \/ MockOkWarningFirst
    \/ MockOkWarningAgain
    \/ MockOkCritical
    \/ MockSleep
    \/ MockShutdown

MockOkSpec == MockInit /\ [][MockOkNext]_vars

----------------------------------------------------------------------------
(* The agent running for ever while provisioning is down: every             *)
(* _provision_new_node raises, the classifier answers critical, warning or  *)
(* none as it likes, and run never stops taking steps.  No node is ever    *)
(* provisioned, so nothing reads the clock or healer._new_node_counter;     *)
(* they and the count of cycles are left as they are, which lets a run that *)
(* repeats itself come back to the same state.                              *)

LivePredictions == {"critical", "warning", "none"}

LiveInit ==
    /\ scen = ScenOff
    /\ mock_check_counter = 0
    /\ mock_prev = "none"
    /\ current_nodes = LastNodes(LiveNodes)
    /\ raft_members = { LastNodes(LiveNodes)[i].address : i \in 1 .. LiveNodes }
    /\ greylisted_nodes = {}
    /\ new_node_counter = 0
    /\ now = 0
    /\ pc = "start"
    /\ health_reports = << >>
    /\ idx = 1
    /\ cycle_error = FALSE
    /\ cycles = 0
    /\ expanded = {}
    /\ last = NoLast
    /\ remed = {}
    /\ prev_remed = {}

LiveStart ==
    /\ BeginCycleBody
    /\ UNCHANGED <<cycles, scen, mock_check_counter, mock_prev>>

LiveHealthy ==
    /\ \E kind \in LivePredictions : HandleHealthy(kind)
    /\ UNCHANGED <<scen, mock_check_counter, mock_prev>>

LiveWarningFirst ==
    /\ \E kind \in LivePredictions : HandleWarningFirstBody(kind, "provision")
    /\ UNCHANGED <<new_node_counter, scen, mock_check_counter, mock_prev>>

LiveWarningAgain ==
    /\ \E kind \in LivePredictions : HandleWarningAgain(kind, "ok")
    /\ UNCHANGED <<scen, mock_check_counter, mock_prev>>

LiveCritical ==
    /\ \E kind \in LivePredictions : HandleCriticalBody(kind, "provision")
    /\ UNCHANGED <<new_node_counter, scen, mock_check_counter, mock_prev>>

LiveSleep ==
    /\ SleepBody
    /\ UNCHANGED <<now, scen, mock_check_counter, mock_prev>>

LiveNext ==
    \/ LiveStart
    \/ LiveHealthy
    \/ LiveWarningFirst
    \/ LiveWarningAgain
    \/ LiveCritical
    \/ LiveSleep

\* agent.py:35: while True, the loop always takes its next step
LiveSpec == LiveInit /\ [][LiveNext]_vars /\ WF_vars(LiveNext)

----------------------------------------------------------------------------
(* Properties *)

AtCycleBoundary == pc \in {"start", "sleep"}

\* the report just processed was a first warning whose expansion failed in
\* Provision or Join
ExpandFailed == last.action = "expand" /\ last.fail \in {"provision", "join"}

\* the report just processed was a critical node whose replacement ...
ReplaceFailedEarly == last.action = "replace" /\ last.fail \in {"provision", "join"}
ReplaceFailedLeave == last.action = "replace" /\ last.fail = "leave"
ReplaceSucceeded   == last.action = "replace" /\ last.fail = "ok"

\* C1: at every cycle boundary (before a cycle starts, after it ended
\* normally, by the critical break or by a failed remediation) every
\* greylisted id is the id of a node of current_nodes.
C1_GreylistSubsetOfNodes ==
    AtCycleBoundary => greylisted_nodes \subseteq Ids(current_nodes)

\* a cycle ended by replacing a node that was greylisted, with other nodes
\* still greylisted or not
C1_Witness ==
    /\ pc = "sleep"
    /\ ReplaceSucceeded
    /\ last.node_id \in last.pre_grey

\* C2 (as claimed): when Provision or Join fails during Expand, current_nodes
\* and greylisted_nodes are both what they were before the node was
\* processed.
C2_ExpandFailureLeavesStateUnchanged ==
    ExpandFailed =>
        /\ current_nodes = last.pre_nodes
        /\ greylisted_nodes = last.pre_grey

\* C3 (as claimed): when Provision and Join succeed and Leave fails during
\* Replace, the provisioned node is in current_nodes, the failing node is
\* still in current_nodes and the remediation is reported as failed.
C3_LeaveFailureKeepsBothNodes ==
    ReplaceFailedLeave =>
        /\ last.provisioned \in Range(current_nodes)
        /\ last.node_id \in Ids(current_nodes)
        /\ last.new_node = NoNode

\* C4: when Provision or Join fails during Replace, current_nodes and
\* greylisted_nodes are exactly as before, the failing node is still a member
\* and handle_critical_failure returns no node.
C4_ReplaceFailureLeavesStateUnchanged ==
    ReplaceFailedEarly =>
        /\ current_nodes = last.pre_nodes
        /\ greylisted_nodes = last.pre_grey
        /\ last.node_id \in Ids(current_nodes)
        /\ last.new_node = NoNode

C4_Witness ==
    /\ ReplaceFailedEarly
    /\ last.fail = "join"
    /\ last.node_id \in greylisted_nodes
    /\ Len(current_nodes) > 1

\* C5: after a successful Replace the old id is neither in current_nodes nor
\* in greylisted_nodes, the new node is in current_nodes, every other node is
\* unchanged and the number of nodes is what it was.
C5_SuccessfulReplace ==
    ReplaceSucceeded =>
        /\ last.node_id \notin Ids(current_nodes)
        /\ last.node_id \notin greylisted_nodes
        /\ last.new_node # NoNode
        /\ last.new_node.id # last.node_id
        /\ current_nodes[Len(current_nodes)] = last.new_node
        /\ SubSeq(current_nodes, 1, Len(current_nodes) - 1)
             = SelectSeq(last.pre_nodes, LAMBDA n : n.id # last.node_id)
        /\ Len(current_nodes) = Len(last.pre_nodes)
        /\ greylisted_nodes = last.pre_grey \ {last.node_id}

C5_Witness ==
    /\ ReplaceSucceeded
    /\ Len(current_nodes) > 1
    /\ last.node_id \in last.pre_grey

\* the node of the report just processed was expanded for, successfully, in
\* the previous cycle
ExpandedLastCycle ==
    \E r \in prev_remed :
        r.node_id = last.node_id /\ r.action = "expand" /\ r.result = "ok"

\* C6: a warning for a node that is not greylisted triggers Expand: the node
\* stays a member, and when the calls succeed one new node is provisioned,
\* joined and appended and the node is greylisted.  A warning for the same node in the
\* next cycle only sends the follow-up alert: no Provision or Join, and
\* current_nodes and greylisted_nodes are unchanged.
C6_ExpandThenReAlert ==
    /\ (last.severity = "warning" /\ last.node_id \notin last.pre_grey) =>
          /\ last.action = "expand"
          /\ last.node_id \in Ids(current_nodes)
          /\ last.calls[1] = "notify"
          /\ last.fail = "ok" =>
                /\ last.calls = <<"notify", "provision", "join">>
                /\ last.new_node # NoNode
                /\ current_nodes = Append(last.pre_nodes, last.new_node)
                /\ greylisted_nodes = last.pre_grey \cup {last.node_id}
    /\ (last.severity = "warning" /\ ExpandedLastCycle) =>
          /\ last.action = "realert"
          /\ last.calls = <<"notify">>
          /\ current_nodes = last.pre_nodes
          /\ greylisted_nodes = last.pre_grey

C6_Witness ==
    /\ last.severity = "warning"
    /\ ExpandedLastCycle
    /\ last.action = "realert"
    /\ last.fail = "ok"

\* C7: a greylisted node classified none is removed from greylisted_nodes
\* with current_nodes unchanged and without any remediation call or alert; a
\* node that is not greylisted and is classified none changes neither.
C7_HealthyNode ==
    last.kind = "none" =>
        /\ last.calls = << >>
        /\ current_nodes = last.pre_nodes
        /\ greylisted_nodes = last.pre_grey \ {last.node_id}
        /\ last.node_id \notin last.pre_grey => greylisted_nodes = last.pre_grey

C7_Witness ==
    /\ last.kind = "none"
    /\ last.node_id \in last.pre_grey
    /\ Len(current_nodes) > 1

\* the replacements attempted in the running cycle
ReplaceAttempts == { r \in remed : r.action = "replace" }

\* C8: in a cycle with a critical node, Replace is attempted for the first
\* critical node only and the cycle ends with it: no later report is
\* classified or changes the state, whether the Replace succeeded or not.
C8_CriticalEndsCycle ==
    /\ Cardinality(ReplaceAttempts) <= 1
    /\ (pc # "start" /\ ReplaceAttempts # {}) =>
          /\ pc \in {"sleep", "stopped"}
          /\ last.action = "replace"
          /\ \E r \in ReplaceAttempts : r.node_id = last.node_id
          /\ idx = last.idx
          /\ current_nodes = NodesAfterReplace(last.pre_nodes, last.node_id, last.new_node)

C8_Witness ==
    /\ ReplaceAttempts # {}
    /\ last.action = "replace"
    /\ last.idx < Len(health_reports)
    /\ last.fail # "ok"

\* the node of the report just processed had a remediation of the same kind
\* fail in the previous cycle
FailedLastCycle ==
    \E r \in prev_remed :
        /\ r.node_id = last.node_id
        /\ r.result = "failed"
        /\ \/ r.action = "expand" /\ last.severity = "warning"
           \/ r.action = "replace" /\ last.severity = "critical"

\* C10 (as claimed): a remediation that failed in one cycle is attempted again
\* in the next cycle when the node is classified the same way: Provision is
\* invoked again for that node.
C10_FailedRemediationRetried ==
    (FailedLastCycle /\ last.fail # "notify") => \E k \in DOMAIN last.calls : last.calls[k] = "provision"

\* the scripted cycle numbered k has ended
ScenCycleDone(k) == scen.stage = k /\ pc = "sleep"

\* what cycles 2, 3 and 4 of the script leave behind, relative to the state
\* the cycle started in (scen.nodes0, scen.grey0)
ScenLaterCycles ==
    /\ ScenCycleDone(2) =>
          /\ Len(current_nodes) = Len(scen.nodes0) + 1
          /\ SubSeq(current_nodes, 1, Len(scen.nodes0)) = scen.nodes0
          /\ current_nodes[Len(current_nodes)].id \notin Ids(scen.nodes0)
          /\ greylisted_nodes = scen.grey0 \cup {scen.node}
          /\ scen.node \notin scen.grey0
    /\ ScenCycleDone(3) =>
          /\ current_nodes = scen.nodes0
          /\ greylisted_nodes = scen.grey0
    /\ ScenCycleDone(4) =>
          /\ scen.node \notin Ids(current_nodes)
          /\ scen.node \notin greylisted_nodes
          /\ greylisted_nodes = scen.grey0 \ {scen.node}
          /\ Len(current_nodes) = Len(scen.nodes0)
          /\ SubSeq(current_nodes, 1, Len(current_nodes) - 1)
               = SelectSeq(scen.nodes0, LAMBDA n : n.id # scen.node)
          /\ current_nodes[Len(current_nodes)].id \notin Ids(scen.nodes0)

\* C9 (as claimed): for a node that is not greylisted when the script starts,
\* cycle 1 changes nothing; cycle 2 adds exactly one node and greylists the
\* node; cycle 3 changes neither current_nodes nor greylisted_nodes; cycle 4
\* removes the node from both and adds exactly one new node.
C9_ScenarioAsClaimed ==
    /\ (ScenCycleDone(1) /\ scen.node \notin scen.grey0) =>
          /\ current_nodes = scen.nodes0
          /\ greylisted_nodes = scen.grey0
    /\ ScenLaterCycles

\* C9 (amended): cycle 1 leaves current_nodes unchanged and leaves no node
\* greylisted, so it changes nothing only when no node was greylisted at its
\* start; cycles 2, 3 and 4 are as claimed.
C9_Scenario ==
    /\ ScenCycleDone(1) =>
          /\ current_nodes = scen.nodes0
          /\ greylisted_nodes = {}
    /\ ScenLaterCycles

C9_Witness ==
    /\ ScenCycleDone(4)
    /\ Len(current_nodes) >= 3
    /\ last.action = "replace"

\* C11: a send_alert that raises during Expand or Replace does not abort the
\* remediation: every backend call of the handler is still made, the node it
\* provisions is handed back, the membership and the greylist are updated as
\* after a successful notification and no exception leaves the cycle.
C11_NotifyFailureDoesNotAbort ==
    (last.action \in {"expand", "replace"} /\ last.fail = "notify") =>
        /\ "provision" \in Range(last.calls)
        /\ "join" \in Range(last.calls)
        /\ last.new_node # NoNode
        /\ last.new_node \in Range(current_nodes)
        /\ ~cycle_error

\* C12: an exception that leaves a cycle is caught: the step that raises takes
\* run to its sleep, never to its end.  Between the end of a cycle and the
\* start of the next there is exactly one sleep of the configured interval,
\* after a failed cycle as after a successful one: a cycle ends in the sleep
\* (or in the shutdown), the sleep lasts AGENT_SLEEP_INTERVAL_SECONDS and is
\* followed by the start of a cycle (or by the shutdown), and a cycle starts
\* without a further sleep.  The sleep and the next cycle can always be taken.
C12_ErrorsAreCaughtAndLoopSleeps ==
    /\ [][ /\ (pc = "loop" /\ cycle_error') => pc' = "sleep"
           /\ pc = "loop" => pc' \in {"loop", "sleep", "stopped"}
           /\ pc = "sleep" =>
                \/ pc' = "start" /\ now' = now + AGENT_SLEEP_INTERVAL_SECONDS
                \/ pc' = "stopped" /\ now' = now
           /\ pc = "start" => (pc' \in {"loop", "sleep"} /\ now' = now)
           /\ pc' = "stopped" => cycle_error' = cycle_error ]_vars
    /\ [](pc = "sleep" => ENABLED Sleep)
    /\ [](pc = "start" => ENABLED BeginCycle)

\* a cycle runs after the cycle before it was left by an exception
C12_Witness ==
    /\ pc = "loop"
    /\ \E r \in prev_remed : r.result = "raised"
    /\ ~cycle_error

\* the answers of predict_failure that are classifier failures: the API call
\* raised, the answer was not JSON, the answer was JSON but not an object
ClassifierFailures == {"api_error", "bad_json", "non_dict"}

\* C13: a node whose classification failed is processed exactly as a node
\* classified none: no backend call is made, current_nodes is unchanged, the
\* greylist is what a none classification leaves, and the cycle goes on with
\* the next report instead of being left by an exception.
C13_ClassifierFailureIsNone ==
    (last.idx > 0 /\ last.kind \in ClassifierFailures) =>
        /\ last.calls = << >>
        /\ current_nodes = last.pre_nodes
        /\ greylisted_nodes = GreylistAfterHealthy(last.pre_grey, last.node_id)
        /\ ~cycle_error
        /\ idx = last.idx + 1

\* C14: a report classified critical always gets a Replace attempt, for a
\* greylisted node as for any other: while reports are being processed the
\* critical handler can be taken for the report at hand, a report classified
\* critical has handle_critical_failure called for it (its first call,
\* send_alert, is made), and after a successful Replace the node is not
\* greylisted.
C14_CriticalAlwaysReplaces ==
    /\ Looping => ENABLED HandleCritical("critical", "ok")
    /\ last.severity = "critical" =>
          /\ last.action = "replace"
          /\ last.calls # << >>
          /\ last.calls[1] = "notify"
          /\ last.fail = "ok" => last.node_id \notin greylisted_nodes

\* a greylisted node was classified critical and replaced
C14_Witness ==
    /\ last.severity = "critical"
    /\ last.node_id \in last.pre_grey
    /\ last.fail = "ok"
    /\ last.node_id \notin greylisted_nodes
    /\ last.new_node \in Range(current_nodes)

\* the address of the node a Replace was attempted for, and of the node it
\* provisioned
ReplacedAddr == _find_node_config(last.pre_nodes, last.node_id).address
ReplacementAddr == last.provisioned.address

\* C15: a Replace makes its calls in the order notify, Provision, Join,
\* Leave; Leave is made only after Provision and Join returned; after every
\* call of the Replace, and when it is left, the failing node is still a
\* member of the Raft cluster or its replacement is one.  Every node of
\* current_nodes is a member, so the failing node is one when the Replace
\* begins.
C15_ReplaceOrder ==
    /\ \A k \in DOMAIN current_nodes : current_nodes[k].address \in raft_members
    /\ last.action = "replace" =>
          /\ last.calls = SubSeq(<<"notify", "provision", "join", "leave">>,
                                 1, Len(last.calls))
          /\ \A k \in DOMAIN last.calls : last.calls[k] = "leave" =>
                \E i, j \in 1 .. (k - 1) :
                    /\ i < j
                    /\ last.calls[i] = "provision"
                    /\ last.calls[j] = "join"
                    /\ last.fail \notin {"provision", "join"}
          /\ \A k \in DOMAIN last.members :
                ReplacedAddr \notin last.members[k] =>
                    ReplacementAddr \in last.members[k]
          /\ ReplacedAddr \notin raft_members => ReplacementAddr \in raft_members

\* a Replace went through all its calls: the new node is a member and the
\* failing node is not
C15_Witness ==
    /\ last.action = "replace"
    /\ Len(last.members) = 4
    /\ ReplacedAddr \notin raft_members
    /\ ReplacementAddr \in raft_members
    /\ ReplacedAddr \in last.members[3]

\* C16: no two entries of current_nodes have the same id.
C16_NodeIdsUnique ==
    \A i, j \in DOMAIN current_nodes :
        current_nodes[i].id = current_nodes[j].id => i = j

\* two provisioned nodes are in current_nodes
C16_Witness ==
    \E i, j \in DOMAIN current_nodes :
        /\ i < j
        /\ current_nodes[i].id[1] = "node-new"
        /\ current_nodes[j].id[1] = "node-new"
        /\ current_nodes[i].id[2] < current_nodes[j].id[2]

\* C17: while a node is classified warning cycle after cycle, Expand calls
\* Provision for it at most once: a step in which Expand calls Provision for
\* a node is taken only when no Expand has called Provision for that node
\* since the node was last processed as none (or since the agent started),
\* and a node for which it did stays greylisted until it is processed as
\* none or is replaced.
C17_ExpandOncePerWarningRun ==
    /\ [][ (last' # last /\ last'.action = "expand"
                /\ "provision" \in Range(last'.calls)) =>
              last'.node_id \notin expanded ]_vars
    /\ [](expanded \subseteq greylisted_nodes)
    /\ [](last.action = "realert" => last.calls = <<"notify">>)

\* a node that was expanded for in an earlier cycle is classified warning
\* again: it is only re-alerted
C17_Witness ==
    /\ last.action = "realert"
    /\ last.node_id \in expanded
    /\ \E r \in prev_remed : r.node_id = last.node_id /\ r.action = "expand"
    /\ current_nodes = last.pre_nodes

SeverityRank(sev) ==
    CASE sev = "critical" -> 2
      [] sev = "warning"  -> 1
      [] OTHER            -> 0

\* C18: in mock mode every prediction bumps the global counter; a node whose
\* id does not contain "unstable" is classified none; an unstable node is
\* classified none while the counter (the number of predictions made, this
\* one included) is below the warning interval, warning from the warning
\* interval up to but excluding the critical interval and critical from the
\* critical interval on; the severity returned for an unstable node is never
\* lower than the one returned for an unstable node before.
C18_MockSeverity ==
    /\ [](last.idx > 0 =>
            LET c == mock_check_counter IN
            /\ ~IsUnstable(last.node_id) => last.kind = "none"
            /\ IsUnstable(last.node_id) =>
                 /\ c < mock_warning_prediction_interval => last.kind = "none"
                 /\ (c >= mock_warning_prediction_interval
                        /\ c < mock_critical_prediction_interval) =>
                        last.kind = "warning"
                 /\ c >= mock_critical_prediction_interval =>
                        last.kind = "critical")
    /\ [][ (last' # last /\ last'.idx > 0) =>
              mock_check_counter' = mock_check_counter + 1 ]_vars
    /\ [][ (last' # last /\ last'.idx > 0 /\ IsUnstable(last'.node_id)) =>
              SeverityRank(last'.kind) >= SeverityRank(mock_prev) ]_vars

\* the unstable node was classified warning in an earlier cycle and is
\* classified critical now
C18_Witness ==
    /\ IsUnstable(last.node_id)
    /\ last.kind = "critical"
    /\ last.node_id \in last.pre_grey
    /\ mock_check_counter >= mock_critical_prediction_interval

\* the cycle was ended by a critical node before the report of n was reached
Deferred(n) ==
    /\ pc = "sleep"
    /\ last.action = "replace"
    /\ \E k \in DOMAIN health_reports : k > last.idx /\ health_reports[k] = n

\* the report of n has just been classified and handled
Evaluated(n) == last.idx > 0 /\ last.node_id = n

\* C19: a node whose report was not reached in a cycle because an earlier
\* node was critical is evaluated in some later cycle, unless it has left
\* current_nodes by then.
C19_DeferredNodeEventuallyEvaluated ==
    \A n \in Ids(CLUSTER_NODES) :
        Deferred(n) ~> (Evaluated(n) \/ n \notin Ids(current_nodes))

\* C20: while the reports of a cycle are being processed, the report at hand
\* and every report still to come is about a node of current_nodes, so
\* _find_node_config finds its configuration; every report that was
\* processed was about a node that was in current_nodes at that moment.
C20_ReportsReferToCurrentNodes ==
    /\ Looping =>
          \A k \in idx .. Len(health_reports) :
              _find_node_config(current_nodes, health_reports[k]) # NoNode
    /\ last.idx > 0 =>
          _find_node_config(last.pre_nodes, last.node_id) # NoNode

\* in the cycle after a successful Replace the report of the new node is
\* about to be processed
C20_Witness ==
    /\ Looping
    /\ health_reports[idx][1] = "node-new"
    /\ \E r \in prev_remed : r.action = "replace" /\ r.result = "ok"
    /\ _find_node_config(current_nodes, health_reports[idx]).id = health_reports[idx]

\* C21: no step makes current_nodes shorter: a step leaves its length as it
\* is or adds one node, and it adds one only in a successful Expand; so the
\* list is never shorter than the list the agent was started with.
C21_NodeCountNeverDecreases ==
    /\ [][ /\ Len(current_nodes') \in {Len(current_nodes), Len(current_nodes) + 1}
           /\ Len(current_nodes') = Len(current_nodes) + 1 =>
                 (last'.action = "expand" /\ last'.fail = "ok") ]_vars
    /\ [](Len(current_nodes) >= Len(InitialNodes))
    /\ [](last.idx > 0 =>
            Len(current_nodes) =
                IF last.action = "expand" /\ last.fail = "ok"
                THEN Len(last.pre_nodes) + 1 ELSE Len(last.pre_nodes))

\* a successful Replace, after an Expand had added a node, left the count
\* as it was
C21_Witness ==
    /\ last.action = "replace"
    /\ last.fail = "ok"
    /\ Len(current_nodes) = Len(last.pre_nodes)
    /\ Len(current_nodes) > Len(InitialNodes)

\* the agent was started on all of config.CLUSTER_NODES: node-1 heads the
\* list (it is in no shorter start list)
DefaultRun == current_nodes # << >> /\ current_nodes[1] = CLUSTER_NODES[1]

UnstableId == CLUSTER_NODES[Len(CLUSTER_NODES)].id

\* cycle k has ended: run is in its sleep, or has slept and not yet begun
\* the next cycle
MockCycleDone(k) == cycles = k /\ pc \in {"sleep", "start"}

\* C22: in mock mode with the default configuration and no failing call,
\* cycle 1 classifies the three stable nodes none and expands once for the
\* unstable node; cycle 2 replaces the unstable node; from cycle 3 on every
\* report is classified none, no remediation is attempted, every node is
\* evaluated, and current_nodes has five nodes, none of them unstable, with
\* an empty greylist.
C22_DefaultMockRun ==
    /\ [][DefaultRun => DefaultRun']_vars
    /\ [](DefaultRun /\ MockCycleDone(1) =>
            /\ remed = {[node_id |-> UnstableId, action |-> "expand",
                         result |-> "ok"]}
            /\ Len(current_nodes) = Len(CLUSTER_NODES) + 1
            /\ greylisted_nodes = {UnstableId}
            /\ mock_check_counter = Len(CLUSTER_NODES))
    /\ [](DefaultRun /\ MockCycleDone(2) =>
            /\ remed = {[node_id |-> UnstableId, action |-> "replace",
                         result |-> "ok"]}
            /\ Len(current_nodes) = Len(CLUSTER_NODES) + 1
            /\ UnstableId \notin Ids(current_nodes)
            /\ \A n \in Ids(current_nodes) : ~IsUnstable(n)
            /\ greylisted_nodes = {})
    /\ [](DefaultRun /\ cycles >= 3 =>
            /\ remed = {}
            /\ Len(current_nodes) = Len(CLUSTER_NODES) + 1
            /\ \A n \in Ids(current_nodes) : ~IsUnstable(n)
            /\ greylisted_nodes = {}
            /\ ~cycle_error
            /\ last.idx > 0 => (last.kind = "none" /\ last.action = "noop")
            /\ pc \in {"sleep", "start"} => idx = Len(current_nodes) + 1)

\* the default run has gone through a quiet cycle after the Replace
C22_Witness ==
    /\ DefaultRun
    /\ cycles >= 4
    /\ pc = "sleep"
    /\ idx = 6
    /\ Len(current_nodes) = 5
    /\ greylisted_nodes = {}
    /\ prev_remed = {}

\* the predictions that are a dict whose severity is missing or is neither
\* "critical" nor "warning"
NoSeverity == {"missing", "other"}

\* C23: a report whose prediction has no severity, or a severity other than
\* "critical" and "warning", is processed as a none: no backend call and no
\* alert is made, current_nodes is unchanged, the node is not greylisted
\* afterwards (it is taken off the greylist if it was on it) and nothing
\* else about the greylist changes; the cycle goes on.
C23_OtherSeverityIsNone ==
    (last.idx > 0 /\ last.kind \in NoSeverity) =>
        /\ last.action \in {"noop", "recover"}
        /\ last.calls = << >>
        /\ current_nodes = last.pre_nodes
        /\ greylisted_nodes = last.pre_grey \ {last.node_id}
        /\ last.node_id \in last.pre_grey => last.action = "recover"
        /\ ~cycle_error
        /\ idx = last.idx + 1

\* a greylisted node got a prediction with an unknown severity and was
\* taken off the greylist
C23_Witness ==
    /\ last.kind = "other"
    /\ last.node_id \in last.pre_grey
    /\ last.node_id \notin greylisted_nodes
    /\ last.action = "recover"
    /\ Len(current_nodes) = Len(last.pre_nodes)

====
